---- MODULE Spec2Model ----
(***************************************************************************)
(* Algebraic two-level method of dune-istl (paamg/twolevelmethod.hh):      *)
(* LevelTransferPolicy / AggregationLevelTransferPolicy,                   *)
(* OneStepAMGCoarseSolverPolicy with its AMGInverseOperator, and           *)
(* TwoLevelMethod.  Vectors are functions 0..n-1 -> Int, matrices are      *)
(* functions row -> (column -> Int).                                       *)
(***************************************************************************)
EXTENDS Integers, Sequences, FiniteSets, TLC

\* ------------------------------------------------------------------ bounds
\* number of fine level unknowns
NFine == 3
\* largest entry of a defect / iterate / residual handed in by a caller
MaxVal == 1
\* largest number of pre- and of post-smoothing steps
MaxSteps == 1
\* largest number of apply calls made on the coarse solvers
MaxApplies == 2
\* largest number of direct calls followed on a transfer policy after one
\* moveToCoarseLevel
MaxChain == 4

\* --------------------------------------------------------------- constants
\* AggregatesMap::ISOLATED, the marker of an unknown that belongs to no
\* aggregate; the transfer skips it
ISOLATED == -1
\* number of TwoLevelMethod objects that may share the transfer policy
TLs == {1, 2}
\* a null shared_ptr / an object that does not exist
Null == 0
\* prolongation damping factors a criterion may carry
DampFactors == {1, 2}
\* the fine level operators a caller may pass
FineKinds == {"identity", "laplace"}
\* the smoothers a caller may pass
SmootherKinds == {"noop", "richardson"}
\* reduction tolerances 10^-k are carried as their exponent k; the tolerance
\* of the apply overload that takes none is 1e-8
DefaultReduction == 8
\* the tolerances a caller asks for explicitly
Reductions == {0, 4, 12}

\* ----------------------------------------------------------------- vectors
Idx(n) == 0..(n - 1)
Dim(x) == Cardinality(DOMAIN x)
ZeroVec(n) == [i \in Idx(n) |-> 0]
ConstVec(n, c) == [i \in Idx(n) |-> c]

RECURSIVE SumOver(_, _)
SumOver(f, S) ==
  IF S = {} THEN 0
  ELSE LET i == CHOOSE j \in S : TRUE IN f[i] + SumOver(f, S \ {i})

\* y = A x
MatVec(A, x) ==
  [i \in DOMAIN A |-> SumOver([j \in DOMAIN x |-> A[i][j] * x[j]], DOMAIN x)]

\* the fine level operator's matrix (fineOperator.getmat())
FineMatrix(kind) ==
  [i \in Idx(NFine) |-> [j \in Idx(NFine) |->
     IF kind = "identity" THEN (IF i = j THEN 1 ELSE 0)
     ELSE (IF i = j THEN 2 ELSE IF i - j \in {-1, 1} THEN -1 ELSE 0)]]

\* -------------------------------------------------------------- aggregates
Members(agg, a) == {i \in DOMAIN agg : agg[i] = a}
AggregateIds(agg) == {agg[i] : i \in DOMAIN agg} \ {ISOLATED}
\* the count IndicesCoarsener::coarsen returns after renumbering
NumAggregates(agg) == Cardinality(AggregateIds(agg))

\* a renumbered aggregates map: ids are contiguous from 0, numbered in the
\* order in which the unknowns are visited, and there is at least one
IsRenumbered(agg) ==
  /\ AggregateIds(agg) = Idx(NumAggregates(agg))
  /\ NumAggregates(agg) >= 1
  /\ \A a \in AggregateIds(agg) : \A b \in AggregateIds(agg) :
       a < b => (CHOOSE i \in Members(agg, a) : \A k \in Members(agg, a) : i <= k)
              < (CHOOSE i \in Members(agg, b) : \A k \in Members(agg, b) : i <= k)

AllAggregatesMaps ==
  {agg \in [Idx(NFine) -> ({ISOLATED} \cup Idx(NFine))] : IsRenumbered(agg)}

\* aggregates of k consecutive unknowns; with iso the last unknown is isolated
BlockMap(k, iso) ==
  [i \in Idx(NFine) |-> IF iso /\ i = NFine - 1 THEN ISOLATED ELSE i \div k]

BlockAggregatesMaps == {BlockMap(k, iso) : k \in {1, NFine}, iso \in BOOLEAN}

\* GalerkinProduct::build + calculate: the coarse matrix R A P of the
\* piecewise constant transfer the aggregates imply
GalerkinProduct(A, agg) ==
  [a \in Idx(NumAggregates(agg)) |-> [b \in Idx(NumAggregates(agg)) |->
     SumOver([i \in Members(agg, a) |->
                SumOver([j \in Members(agg, b) |-> A[i][j]], Members(agg, b))],
             Members(agg, a))]]

\* Transfer::restrictVector: each coarse entry is the sum of the fine entries
\* of its aggregate
restrictVector(agg, fine) ==
  [a \in Idx(NumAggregates(agg)) |-> SumOver(fine, Members(agg, a))]

\* Transfer::prolongateVector: every unknown of an aggregate receives
\* damp * coarse[aggregate]; an isolated unknown receives nothing
prolongateVector(agg, coarse, fine, damp) ==
  [i \in DOMAIN fine |->
     IF agg[i] # ISOLATED THEN fine[i] + damp * coarse[agg[i]] ELSE fine[i]]

\* ---------------------------------------------------- external collaborators
\* the values a vector entry may hold after BlockVector::resize allocated it
\* without initialising it
UninitVals == {0, 7}

\* BlockVector::resize: a vector of the size asked for stays as it is, any
\* other is reallocated and its entries are not initialised
resize(vec, n) ==
  IF Dim(vec) = n THEN {vec} ELSE {ConstVec(n, g) : g \in UninitVals}

\* one relaxation sweep of the fine level smoother on (lhs, rhs)
SmootherApply(kind, lhs, rhs) ==
  IF kind = "noop" THEN lhs ELSE [i \in DOMAIN lhs |-> lhs[i] + rhs[i]]

\* presmooth(levelContext, steps): steps sweeps, each updating the iterate and
\* refreshing the residual to d - A u
RECURSIVE presmooth(_, _, _, _, _, _)
presmooth(A, kind, lhs, rhs, d, steps) ==
  IF steps = 0 THEN [lhs |-> lhs, rhs |-> rhs, sweeps |-> <<>>]
  ELSE LET u == SmootherApply(kind, lhs, rhs)
           Au == MatVec(A, u)
           r == [i \in DOMAIN d |-> d[i] - Au[i]]
           rest == presmooth(A, kind, u, r, d, steps - 1)
       IN [rest EXCEPT !.sweeps = <<"smooth">> \o @]

\* AMG::pre(x, b): the recursive solver's setup; it leaves x and b alone
AMG_pre(x, b) == x

\* AMG::apply(x, b): one application of the recursive solver to the coarse
\* system A x = b, here one relaxation x + D^-1 (b - A x)
AMG_apply(A, x, b) ==
  LET Ax == MatVec(A, x)
  IN [a \in DOMAIN x |->
        IF A[a][a] = 0 THEN x[a] ELSE x[a] + ((b[a] - Ax[a]) \div A[a][a])]

\* the results a use of the recursive solver can have: bound to a live coarse
\* operator it computes AMG_apply; bound to one that was freed it reads freed
\* memory, which may still hold the matrix or anything else
AMG_outcomes(A, x, b, live) ==
  IF live THEN {AMG_apply(A, x, b)}
  ELSE {AMG_apply(A, x, b)} \cup {ConstVec(Dim(x), g) : g \in UninitVals}

\* InverseOperatorResult(): the diagnostics of a solve as constructed, before
\* any solver wrote to them
InverseOperatorResult ==
  [iterations |-> 0, converged |-> FALSE]

\* ------------------------------------------ AggregationLevelTransferPolicy
\* AggregationLevelTransferPolicy(crit): nothing but the criterion is set
NewPolicy(damp) ==
  [criterion_ |-> [prolongDamp |-> damp],
   prolongDamp_ |-> Null, aggregatesMap_ |-> <<>>,
   matrix_ |-> Null, coarseMatrix |-> <<>>, operator_ |-> Null,
   lhs_ |-> <<>>, rhs_ |-> <<>>,
   created |-> 0, lhsWriter |-> "none"]

\* createCoarseLevelSystem that sizes the coarse vectors like the fine level
createCoarseLevelSystem_fineSized(p, fineOperator, agg) ==
  LET Ac == GalerkinProduct(FineMatrix(fineOperator), agg)
      id == p.created + 1
  IN {[p EXCEPT !.prolongDamp_ = p.criterion_.prolongDamp,
                !.aggregatesMap_ = agg,
                !.matrix_ = id, !.coarseMatrix = Ac,
                !.lhs_ = l, !.rhs_ = r,
                !.operator_ = id,
                !.created = id, !.lhsWriter = "resize"]
       : l \in resize(p.lhs_, Dim(FineMatrix(fineOperator))),
         r \in resize(p.rhs_, Dim(FineMatrix(fineOperator)))}

\* createCoarseLevelSystem(fineOperator); agg is the renumbered map that
\* buildAggregates and the renumberer produce for the operator.  The call
\* allocates a new matrix and a new operator (the created-th of each) and
\* lets go of the ones the policy held.
createCoarseLevelSystem(p, fineOperator, agg) ==
  LET Ac == GalerkinProduct(FineMatrix(fineOperator), agg)
      id == p.created + 1
  IN {[p EXCEPT !.prolongDamp_ = p.criterion_.prolongDamp,
                !.aggregatesMap_ = agg,
                !.matrix_ = id, !.coarseMatrix = Ac,
                !.lhs_ = l, !.rhs_ = r,
                !.operator_ = id,
                !.created = id, !.lhsWriter = "resize"]
       : l \in resize(p.lhs_, Dim(Ac)), r \in resize(p.rhs_, Dim(Ac))}

\* moveToCoarseLevel without the reset of the coarse lhs
moveToCoarseLevel_noReset(p, fineRhs) ==
  [p EXCEPT !.rhs_ = restrictVector(p.aggregatesMap_, fineRhs),
            !.lhsWriter = "zero"]

\* moveToCoarseLevel with lhs_ and rhs_ taken for each other
moveToCoarseLevel_swapped(p, fineRhs) ==
  [p EXCEPT !.lhs_ = restrictVector(p.aggregatesMap_, fineRhs),
            !.rhs_ = ZeroVec(Dim(p.rhs_)),
            !.lhsWriter = "zero"]

\* moveToCoarseLevel that zeroes the restricted rhs_ in place of lhs_
moveToCoarseLevel_zeroesRhs(p, fineRhs) ==
  [p EXCEPT !.rhs_ = ZeroVec(Dim(p.rhs_)),
            !.lhsWriter = "zero"]

moveToCoarseLevel(p, fineRhs) ==
  [p EXCEPT !.rhs_ = restrictVector(p.aggregatesMap_, fineRhs),
            !.lhs_ = ZeroVec(Dim(p.lhs_)),
            !.lhsWriter = "zero"]

\* moveToFineLevel(fineLhs): the new value of fineLhs
moveToFineLevel(p, fineLhs) ==
  prolongateVector(p.aggregatesMap_, p.lhs_, fineLhs, p.prolongDamp_)

\* ------------------------------------------- OneStepAMGCoarseSolverPolicy
\* AMGInverseOperator(amg), amg an AMG bound to coarse operator op
NewAMGInverseOperator(op) ==
  [amg_ |-> [op |-> op, calls |-> <<>>], first_ |-> TRUE, x_ |-> <<>>]

\* a call of the AMG: live tells whether the operator it is bound to existed,
\* arg is the vector x it was called with
Call(f, live, arg) == [f |-> f, live |-> live, arg |-> arg]

\* apply that never clears first_
AMGInverseOperator_apply_keepsFirst(h, x, b, reduction, res, A, live) ==
  LET x1 == IF h.first_ THEN AMG_pre(x, b) ELSE x
      h1 == IF h.first_
            THEN [h EXCEPT !.amg_.calls = Append(@, Call("pre", live, x)),
                           !.x_ = x1]
            ELSE h
  IN {[h |-> [h1 EXCEPT !.amg_.calls = Append(@, Call("apply", live, x1))],
       x |-> x2, res |-> res] : x2 \in AMG_outcomes(A, x1, b, live)}

\* apply whose first call sets the solver up and applies it in an else branch
AMGInverseOperator_apply_setupOnly(h, x, b, reduction, res, A, live) ==
  IF h.first_
  THEN {[h |-> [h EXCEPT !.amg_.calls = Append(@, Call("pre", live, x)),
                         !.first_ = FALSE,
                         !.x_ = AMG_pre(x, b)],
         x |-> AMG_pre(x, b), res |-> res]}
  ELSE {[h |-> [h EXCEPT !.amg_.calls = Append(@, Call("apply", live, x))],
         x |-> x2, res |-> res] : x2 \in AMG_outcomes(A, x, b, live)}

\* apply that applies the solver a second time when the tolerance asked for
\* is tighter than the default one
AMGInverseOperator_apply_iterates(h, x, b, reduction, res, A, live) ==
  LET x1 == IF h.first_ THEN AMG_pre(x, b) ELSE x
      h1 == IF h.first_
            THEN [h EXCEPT !.amg_.calls = Append(@, Call("pre", live, x)),
                           !.first_ = FALSE,
                           !.x_ = x1]
            ELSE h
      h2 == [h1 EXCEPT !.amg_.calls = Append(@, Call("apply", live, x1))]
  IN UNION {
       IF reduction > DefaultReduction
       THEN {[h |-> [h2 EXCEPT !.amg_.calls = Append(@, Call("apply", live, x2))],
              x |-> x3, res |-> res] : x3 \in AMG_outcomes(A, x2, b, live)}
       ELSE {[h |-> h2, x |-> x2, res |-> res]}
       : x2 \in AMG_outcomes(A, x1, b, live)}

\* apply that captures the iterate after the application step
AMGInverseOperator_apply_capturesLate(h, x, b, reduction, res, A, live) ==
  LET x1 == IF h.first_ THEN AMG_pre(x, b) ELSE x
      h1 == IF h.first_
            THEN [h EXCEPT !.amg_.calls = Append(@, Call("pre", live, x)),
                           !.first_ = FALSE]
            ELSE h
  IN {[h |-> [h1 EXCEPT !.amg_.calls = Append(@, Call("apply", live, x1)),
                        !.x_ = IF h.first_ THEN x2 ELSE @],
       x |-> x2, res |-> res] : x2 \in AMG_outcomes(A, x1, b, live)}

\* AMGInverseOperator::apply(x, b, reduction, res): the handle, x and res
\* afterwards; live tells whether the operator the AMG is bound to still
\* exists.  Neither reduction nor res is used by the body.
AMGInverseOperator_apply(h, x, b, reduction, res, A, live) ==
  LET x1 == IF h.first_ THEN AMG_pre(x, b) ELSE x
      h1 == IF h.first_
            THEN [h EXCEPT !.amg_.calls = Append(@, Call("pre", live, x)),
                           !.first_ = FALSE,
                           !.x_ = x1]
            ELSE h
  IN {[h |-> [h1 EXCEPT !.amg_.calls = Append(@, Call("apply", live, x1))],
       x |-> x2, res |-> res] : x2 \in AMG_outcomes(A, x1, b, live)}

\* AMGInverseOperator::apply(x, b, res): the overload without a tolerance
AMGInverseOperator_apply_x_b_res(h, x, b, res, A, live) ==
  AMGInverseOperator_apply(h, x, b, DefaultReduction, res, A, live)

\* a destructor that tears the solver down whether or not it was set up
AMGInverseOperator_destroy_always(h, live) ==
  [h EXCEPT !.amg_.calls = Append(@, Call("post", live, h.x_))]

\* ~AMGInverseOperator()
AMGInverseOperator_destroy(h, live) ==
  IF ~h.first_
  THEN [h EXCEPT !.amg_.calls = Append(@, Call("post", live, h.x_))]
  ELSE h

\* createCoarseLevelSolver(transferPolicy) on coarse solver policy cp: the
\* policy keeps the transfer policy's coarse operator and the new handle
\* wraps an AMG bound to it
createCoarseLevelSolver(cp, p) ==
  [coarsePolicy |-> [cp EXCEPT !.coarseOperator_ = p.operator_],
   inv |-> NewAMGInverseOperator(p.operator_)]

\* ---------------------------------------------------------- TwoLevelMethod
NoTwoLevelMethod ==
  [state |-> "none", preSteps_ |-> 0, postSteps_ |-> 0,
   coarseSolver_ |-> NewAMGInverseOperator(Null)]

\* apply that prolongates before it solves on the coarse level
TwoLevelMethod_apply_prolongFirst(t, p, fineOperator, smoother, v, d, live) ==
  LET A == FineMatrix(fineOperator)
      s1 == presmooth(A, smoother, v, d, d, t.preSteps_)
      p1 == moveToCoarseLevel(p, s1.rhs)
      u2 == moveToFineLevel(p1, s1.lhs)
      s2 == presmooth(A, smoother, u2, s1.rhs, d, t.postSteps_)
  IN {[tl |-> [t EXCEPT !.coarseSolver_ = r.h],
       policy |-> [p1 EXCEPT !.lhs_ = r.x, !.lhsWriter = "solve"],
       out |-> v,
       u |-> s2.lhs,
       residual |-> s1.rhs,
       coarseIn |-> [x |-> p1.lhs_, b |-> p1.rhs_],
       trace |-> s1.sweeps
                 \o <<"moveToCoarseLevel", "moveToFineLevel",
                      "coarseSolver.apply">>
                 \o s2.sweeps]
      : r \in AMGInverseOperator_apply_x_b_res(t.coarseSolver_, p1.lhs_,
                  p1.rhs_, InverseOperatorResult, p1.coarseMatrix, live)}

\* apply that builds the coarse level system anew before each cycle
TwoLevelMethod_apply_rebuilds(t, p, fineOperator, smoother, v, d, live) ==
  LET A == FineMatrix(fineOperator)
      s1 == presmooth(A, smoother, v, d, d, t.preSteps_)
  IN UNION {
      LET p1 == moveToCoarseLevel(p0, s1.rhs)
      IN {LET p2 == [p1 EXCEPT !.lhs_ = r.x, !.lhsWriter = "solve"]
              u2 == moveToFineLevel(p2, s1.lhs)
              s2 == presmooth(A, smoother, u2, s1.rhs, d, t.postSteps_)
          IN [tl |-> [t EXCEPT !.coarseSolver_ = r.h],
              policy |-> p2,
              out |-> v,
              u |-> s2.lhs,
              residual |-> s1.rhs,
              coarseIn |-> [x |-> p1.lhs_, b |-> p1.rhs_],
              trace |-> s1.sweeps
                        \o <<"moveToCoarseLevel", "coarseSolver.apply",
                             "moveToFineLevel">>
                        \o s2.sweeps]
          : r \in AMGInverseOperator_apply_x_b_res(t.coarseSolver_, p1.lhs_,
                      p1.rhs_, InverseOperatorResult, p1.coarseMatrix, FALSE)}
      : p0 \in createCoarseLevelSystem(p, fineOperator, p.aggregatesMap_)}

\* TwoLevelMethod::apply(v, d) on TwoLevelMethod t with transfer policy p:
\* the objects afterwards, the caller's v afterwards (out), and what the call
\* did: the final working iterate u, the residual handed to the coarse level,
\* the coarse lhs/rhs the coarse solver was entered with, the order of steps
TwoLevelMethod_apply(t, p, fineOperator, smoother, v, d, live) ==
  LET A == FineMatrix(fineOperator)
      s1 == presmooth(A, smoother, v, d, d, t.preSteps_)
      p1 == moveToCoarseLevel(p, s1.rhs)
  IN {LET p2 == [p1 EXCEPT !.lhs_ = r.x, !.lhsWriter = "solve"]
          u2 == moveToFineLevel(p2, s1.lhs)
          s2 == presmooth(A, smoother, u2, s1.rhs, d, t.postSteps_)
      IN [tl |-> [t EXCEPT !.coarseSolver_ = r.h],
          policy |-> p2,
          out |-> v,
          u |-> s2.lhs,
          residual |-> s1.rhs,
          coarseIn |-> [x |-> p1.lhs_, b |-> p1.rhs_],
          trace |-> s1.sweeps
                    \o <<"moveToCoarseLevel", "coarseSolver.apply",
                         "moveToFineLevel">>
                    \o s2.sweeps]
      : r \in AMGInverseOperator_apply_x_b_res(t.coarseSolver_, p1.lhs_,
                  p1.rhs_, InverseOperatorResult, p1.coarseMatrix, live)}

\* a pre that hands the call on to the coarse solver's AMG
TwoLevelMethod_pre_setsUp(t, p, x, b) ==
  [tl |-> [t EXCEPT !.coarseSolver_.amg_.calls = Append(@, Call("pre", TRUE, x)),
                    !.coarseSolver_.first_ = FALSE,
                    !.coarseSolver_.x_ = p.lhs_],
   policy |-> p, x |-> x, b |-> b]

\* TwoLevelMethod::pre(x, b), an empty body: the TwoLevelMethod, its transfer
\* policy and the arguments afterwards
TwoLevelMethod_pre(t, p, x, b) ==
  [tl |-> t, policy |-> p, x |-> x, b |-> b]

\* TwoLevelMethod::post(x), an empty body
TwoLevelMethod_post(t, p, x) ==
  [tl |-> t, policy |-> p, x |-> x]

\* TwoLevelMethod(op, smoother, policy, coarsePolicy, preSteps, postSteps):
\* the constructor body, createCoarseLevelSystem and then
\* createCoarseLevelSolver, which stores the coarse operator in the coarse
\* solver policy and binds a new AMG to it
TwoLevelMethod_construct(p, cp, fineOperator, agg, preSteps, postSteps) ==
  {[policy |-> p1,
    coarsePolicy |-> [cp EXCEPT !.coarseOperator_ = p1.operator_],
    tl |-> [state |-> "live", preSteps_ |-> preSteps, postSteps_ |-> postSteps,
            coarseSolver_ |-> NewAMGInverseOperator(p1.operator_)]]
   : p1 \in createCoarseLevelSystem(p, fineOperator, agg)}

\* ~TwoLevelMethod(): the members go in reverse order of declaration, so
\* policy_ is released before coarseSolver_ is; live tells whether the coarse
\* operator of the solver's AMG exists once policy_ is released
TwoLevelMethod_destroy(t, live) ==
  [t EXCEPT !.state = "destroyed",
            !.coarseSolver_ = AMGInverseOperator_destroy(@, live)]

\* ------------------------------------------------------------------- state
VARIABLES
  fineOp,        \* the fine level operator the caller owns
  smoother,      \* the fine level smoother the caller shares
  aggregation,   \* the aggregates buildAggregates yields for fineOp
  policy,        \* the transfer policy object
  owners,        \* who holds a shared_ptr to the transfer policy
  coarsePolicy,  \* the OneStepAMGCoarseSolverPolicy object
  tlm,           \* the TwoLevelMethod objects
  obs,           \* what the latest TwoLevelMethod::apply was given and did
  xfer,          \* what the latest direct call of the transfer policy did
  solve,         \* a coarse solver handle its owner uses directly, and what
                 \* the latest call of its apply was given and did
  hook           \* what the latest TwoLevelMethod::pre or post was given and
                 \* left in its arguments

vars == <<fineOp, smoother, aggregation, policy, owners, coarsePolicy, tlm,
          obs, xfer, solve, hook>>

PolicyAlive(own) == own.caller \/ own.tls # {}

\* the coarse operator id and the matrix it wraps both still exist
OperatorLive(id, pol, own, cp) ==
  /\ id # Null
  /\ \/ PolicyAlive(own) /\ pol.operator_ = id
     \/ cp.alive /\ cp.coarseOperator_ = id
  /\ PolicyAlive(own) /\ pol.matrix_ = id

CallNames(h) == [k \in DOMAIN h.amg_.calls |-> h.amg_.calls[k].f]
NumCalls(h, f) == Len(SelectSeq(h.amg_.calls, LAMBDA c : c.f = f))
AppliesMade == SumOver([t \in TLs |-> NumCalls(tlm[t].coarseSolver_, "apply")], TLs)

Values == 0..MaxVal
UnitVecs(S) ==
  {[i \in Idx(NFine) |-> IF i = k THEN c ELSE 0] : k \in Idx(NFine), c \in S}
ConstVecs(S) == {ConstVec(NFine, c) : c \in S}
FineVecs(S) == [Idx(NFine) -> S]
\* the iterates v and the defects d a caller hands to apply
Iterates == ConstVecs({0, MaxVal})
Defects == ConstVecs({MaxVal}) \cup UnitVecs({1})

NoObs ==
  [tl |-> Null, v |-> <<>>, d |-> <<>>, out |-> <<>>, u |-> <<>>,
   residual |-> <<>>, coarseIn |-> [x |-> <<>>, b |-> <<>>], trace |-> <<>>,
   created |-> 0, repeat |-> FALSE, prevOut |-> <<>>, prevU |-> <<>>]

\* chain: the calls made on the policy since its coarse system was created or
\* since its latest moveToCoarseLevel, that one included; writer: what had
\* written the coarse lhs last when moveToFineLevel was called
NoXfer ==
  [chain |-> <<>>, fineRhs |-> <<>>, fineIn |-> <<>>, fineOut |-> <<>>,
   writer |-> "none"]

\* no pre or post called yet.  Of a call: which TwoLevelMethod, whether its
\* coarse solver had been set up, the arguments before and after
NoHook ==
  [op |-> "none", tl |-> Null, active |-> FALSE,
   x |-> <<>>, b |-> <<>>, xOut |-> <<>>, bOut |-> <<>>]

\* no handle in direct use.  Of a call of the handle's apply: the x, b and res
\* it was given (resIn), whether a tolerance was passed and which, x and res
\* afterwards (out, res), the application steps of the AMG it made, and
\* whether the step failed to bring the residual of the coarse system down
NoSolve ==
  [h |-> NewAMGInverseOperator(Null), state |-> "none",
   called |-> FALSE, x |-> <<>>, b |-> <<>>,
   explicit |-> FALSE, reduction |-> DefaultReduction,
   resIn |-> InverseOperatorResult, out |-> <<>>, res |-> InverseOperatorResult,
   steps |-> 0, failed |-> FALSE]

\* the state after the caller built the operator, the smoother, the transfer
\* policy and the coarse solver policy, and no TwoLevelMethod yet
InitWith(kinds, smoothers, maps, damps) ==
  /\ fineOp \in kinds
  /\ smoother \in smoothers
  /\ aggregation \in maps
  /\ \E damp \in damps : policy = NewPolicy(damp)
  /\ owners = [caller |-> TRUE, tls |-> {}]
  /\ coarsePolicy = [alive |-> TRUE, coarseOperator_ |-> Null]
  /\ tlm = [t \in TLs |-> NoTwoLevelMethod]
  /\ obs = NoObs
  /\ xfer = NoXfer
  /\ solve = NoSolve
  /\ hook = NoHook

\* new TwoLevelMethod(fineOp, smoother, policy, coarsePolicy, pre, post)
Construct(t, preSteps, postSteps) ==
  /\ tlm[t].state = "none"
  /\ owners.caller
  /\ coarsePolicy.alive
  /\ \E r \in TwoLevelMethod_construct(policy, coarsePolicy, fineOp,
                                       aggregation, preSteps, postSteps) :
       /\ policy' = r.policy
       /\ coarsePolicy' = r.coarsePolicy
       /\ tlm' = [tlm EXCEPT ![t] = r.tl]
  /\ owners' = [owners EXCEPT !.tls = @ \cup {t}]
  /\ UNCHANGED <<fineOp, smoother, aggregation, obs, xfer, solve, hook>>

\* tlm[t].apply(v, d)
Apply(t, v, d) ==
  /\ tlm[t].state = "live"
  /\ AppliesMade < MaxApplies
  /\ \E r \in TwoLevelMethod_apply(tlm[t], policy, fineOp, smoother, v, d,
                OperatorLive(tlm[t].coarseSolver_.amg_.op, policy, owners,
                             coarsePolicy)) :
       /\ policy' = r.policy
       /\ tlm' = [tlm EXCEPT ![t] = r.tl]
       /\ obs' = [tl |-> t, v |-> v, d |-> d, out |-> r.out, u |-> r.u,
                  residual |-> r.residual, coarseIn |-> r.coarseIn,
                  trace |-> r.trace,
                  created |-> policy.created,
                  repeat |-> (obs.tl = t /\ obs.v = v /\ obs.d = d
                              /\ obs.created = policy.created),
                  prevOut |-> obs.out,
                  prevU |-> obs.u]
  /\ UNCHANGED <<fineOp, smoother, aggregation, owners, coarsePolicy, xfer,
                 solve, hook>>

\* tlm[t].pre(x, b)
Pre(t, x, b) ==
  /\ tlm[t].state = "live"
  /\ LET r == TwoLevelMethod_pre(tlm[t], policy, x, b)
     IN /\ tlm' = [tlm EXCEPT ![t] = r.tl]
        /\ policy' = r.policy
        /\ hook' = [op |-> "pre", tl |-> t,
                    active |-> ~tlm[t].coarseSolver_.first_,
                    x |-> x, b |-> b, xOut |-> r.x, bOut |-> r.b]
  /\ UNCHANGED <<fineOp, smoother, aggregation, owners, coarsePolicy, obs, xfer,
                 solve>>

\* tlm[t].post(x)
Post(t, x) ==
  /\ tlm[t].state = "live"
  /\ LET r == TwoLevelMethod_post(tlm[t], policy, x)
     IN /\ tlm' = [tlm EXCEPT ![t] = r.tl]
        /\ policy' = r.policy
        /\ hook' = [op |-> "post", tl |-> t,
                    active |-> ~tlm[t].coarseSolver_.first_,
                    x |-> x, b |-> <<>>, xOut |-> r.x, bOut |-> <<>>]
  /\ UNCHANGED <<fineOp, smoother, aggregation, owners, coarsePolicy, obs, xfer,
                 solve>>

\* delete tlm[t]
Destroy(t) ==
  /\ tlm[t].state = "live"
  /\ owners' = [owners EXCEPT !.tls = @ \ {t}]
  /\ tlm' = [tlm EXCEPT ![t] =
       TwoLevelMethod_destroy(@,
         OperatorLive(tlm[t].coarseSolver_.amg_.op, policy, owners',
                      coarsePolicy))]
  /\ UNCHANGED <<fineOp, smoother, aggregation, policy, coarsePolicy, obs, xfer,
                 solve, hook>>

\* the caller lets go of its shared_ptr to the transfer policy
ReleasePolicy ==
  /\ owners.caller
  /\ owners' = [owners EXCEPT !.caller = FALSE]
  /\ UNCHANGED <<fineOp, smoother, aggregation, policy, coarsePolicy, tlm, obs,
                 xfer, solve, hook>>

\* the caller's coarse solver policy goes out of scope
DestroyCoarsePolicy ==
  /\ coarsePolicy.alive
  /\ coarsePolicy' = [alive |-> FALSE, coarseOperator_ |-> Null]
  /\ UNCHANGED <<fineOp, smoother, aggregation, policy, owners, tlm, obs, xfer,
                 solve, hook>>

\* ------------------------------------------------- one TwoLevelMethod: Spec
\* the caller builds one TwoLevelMethod on its policy and runs cycles on it
Init ==
  InitWith(FineKinds, SmootherKinds, BlockAggregatesMaps, DampFactors)

Next ==
  \/ \E pre \in 0..MaxSteps : \E post \in 0..MaxSteps : Construct(1, pre, post)
  \/ \E v \in Iterates : \E d \in Defects : Apply(1, v, d)
  \/ Destroy(1)

Spec == Init /\ [][Next]_vars

\* ------------------------- TwoLevelMethods sharing the policy: SpecShared
InitShared ==
  InitWith({"laplace"}, {"richardson"}, {BlockMap(NFine, TRUE)}, {2})

NextShared ==
  \/ \E t \in TLs : \E n \in {0, MaxSteps} : Construct(t, n, n)
  \/ \E t \in TLs : Apply(t, ZeroVec(NFine), ConstVec(NFine, MaxVal))
  \/ \E t \in TLs : Pre(t, ZeroVec(NFine), ConstVec(NFine, MaxVal))
  \/ \E t \in TLs : Post(t, ConstVec(NFine, MaxVal))
  \/ \E t \in TLs : Destroy(t)
  \/ ReleasePolicy
  \/ DestroyCoarsePolicy

SpecShared == InitShared /\ [][NextShared]_vars

\* ----------------------------- the transfer policy on its own: SpecTransfer
\* policy.moveToCoarseLevel(fineRhs), called by the owner of the policy
MoveToCoarse(fineRhs) ==
  /\ policy.created > 0
  /\ policy' = moveToCoarseLevel(policy, fineRhs)
  /\ xfer' = [NoXfer EXCEPT !.chain = <<"moveToCoarseLevel">>,
                            !.fineRhs = fineRhs]
  /\ UNCHANGED <<fineOp, smoother, aggregation, owners, coarsePolicy, tlm, obs,
                 solve, hook>>

\* a coarse solver that solves with the identity, writing through
\* getCoarseLevelLhs() what it reads through getCoarseLevelRhs()
IdentitySolve ==
  /\ policy.created > 0
  /\ Len(xfer.chain) < MaxChain
  /\ policy' = [policy EXCEPT !.lhs_ = policy.rhs_, !.lhsWriter = "solve"]
  /\ xfer' = [xfer EXCEPT !.chain = Append(@, "solve")]
  /\ UNCHANGED <<fineOp, smoother, aggregation, owners, coarsePolicy, tlm, obs,
                 solve, hook>>

\* policy.moveToFineLevel(fineLhs), called by the owner of the policy
MoveToFine(fineLhs) ==
  /\ policy.created > 0
  /\ Len(xfer.chain) < MaxChain
  /\ xfer' = [xfer EXCEPT !.chain = Append(@, "moveToFineLevel"),
                          !.fineIn = fineLhs,
                          !.fineOut = moveToFineLevel(policy, fineLhs),
                          !.writer = policy.lhsWriter]
  /\ UNCHANGED <<fineOp, smoother, aggregation, policy, owners, coarsePolicy,
                 tlm, obs, solve, hook>>

\* the state after the owner of a policy called createCoarseLevelSystem on it
InitTransfer ==
  /\ fineOp = "laplace"
  /\ smoother = "noop"
  /\ aggregation \in AllAggregatesMaps
  /\ \E damp \in DampFactors :
       policy \in createCoarseLevelSystem(NewPolicy(damp), fineOp, aggregation)
  /\ owners = [caller |-> TRUE, tls |-> {}]
  /\ coarsePolicy = [alive |-> TRUE, coarseOperator_ |-> Null]
  /\ tlm = [t \in TLs |-> NoTwoLevelMethod]
  /\ obs = NoObs
  /\ xfer = NoXfer
  /\ solve = NoSolve
  /\ hook = NoHook

NextTransfer ==
  \/ \E r \in FineVecs({0, MaxVal}) : MoveToCoarse(r)
  \/ IdentitySolve
  \/ \E f \in ConstVecs({0, MaxVal}) : MoveToFine(f)

SpecTransfer == InitTransfer /\ [][NextTransfer]_vars

\* ---------------------------------- the coarse solver handle: SpecHandle
Abs(n) == IF n < 0 THEN -n ELSE n
\* the 1-norm of the residual b - A x of the coarse system
ResidualNorm(A, x, b) ==
  LET Ax == MatVec(A, x)
  IN SumOver([a \in DOMAIN x |-> Abs(b[a] - Ax[a])], DOMAIN x)

CoarseVecs(S) == {ConstVec(Dim(policy.coarseMatrix), c) : c \in S}
CoarseRhs ==
  CoarseVecs({MaxVal})
    \cup {[a \in Idx(Dim(policy.coarseMatrix)) |-> IF a = 0 THEN MaxVal ELSE 0]}
\* the result objects a caller passes: a new one, or one an earlier solve
\* elsewhere reported success in
Results == {InverseOperatorResult, [iterations |-> 1, converged |-> TRUE]}

\* what a call of the handle's apply with the outcome r leaves in solve
AfterHandleApply(r, x, b, explicit, reduction, res) ==
  [h |-> r.h, state |-> "live", called |-> TRUE, x |-> x, b |-> b,
   explicit |-> explicit, reduction |-> reduction,
   resIn |-> res, out |-> r.x, res |-> r.res,
   steps |-> NumCalls(r.h, "apply") - NumCalls(solve.h, "apply"),
   failed |-> ResidualNorm(policy.coarseMatrix, r.x, b)
                >= ResidualNorm(policy.coarseMatrix, x, b)]

\* inv->apply(x, b, res) on the handle createCoarseLevelSolver returned
HandleApply(x, b, res) ==
  /\ solve.state = "live"
  /\ NumCalls(solve.h, "apply") < MaxApplies
  /\ \E r \in AMGInverseOperator_apply_x_b_res(solve.h, x, b, res,
                policy.coarseMatrix,
                OperatorLive(solve.h.amg_.op, policy, owners, coarsePolicy)) :
       solve' = AfterHandleApply(r, x, b, FALSE, DefaultReduction, res)
  /\ UNCHANGED <<fineOp, smoother, aggregation, policy, owners, coarsePolicy,
                 tlm, obs, xfer, hook>>

\* inv->apply(x, b, reduction, res)
HandleApplyReduction(x, b, reduction, res) ==
  /\ solve.state = "live"
  /\ NumCalls(solve.h, "apply") < MaxApplies
  /\ \E r \in AMGInverseOperator_apply(solve.h, x, b, reduction, res,
                policy.coarseMatrix,
                OperatorLive(solve.h.amg_.op, policy, owners, coarsePolicy)) :
       solve' = AfterHandleApply(r, x, b, TRUE, reduction, res)
  /\ UNCHANGED <<fineOp, smoother, aggregation, policy, owners, coarsePolicy,
                 tlm, obs, xfer, hook>>

\* delete inv
HandleDestroy ==
  /\ solve.state = "live"
  /\ solve' = [solve EXCEPT
       !.state = "destroyed",
       !.h = AMGInverseOperator_destroy(@,
               OperatorLive(solve.h.amg_.op, policy, owners, coarsePolicy))]
  /\ UNCHANGED <<fineOp, smoother, aggregation, policy, owners, coarsePolicy,
                 tlm, obs, xfer, hook>>

\* the state after the caller called createCoarseLevelSystem on a transfer
\* policy and createCoarseLevelSolver on a coarse solver policy
InitHandle ==
  /\ fineOp = "laplace"
  /\ smoother = "noop"
  /\ aggregation \in BlockAggregatesMaps
  /\ \E damp \in DampFactors :
       policy \in createCoarseLevelSystem(NewPolicy(damp), fineOp, aggregation)
  /\ owners = [caller |-> TRUE, tls |-> {}]
  /\ LET r == createCoarseLevelSolver(
                [alive |-> TRUE, coarseOperator_ |-> Null], policy)
     IN /\ coarsePolicy = r.coarsePolicy
        /\ solve = [NoSolve EXCEPT !.h = r.inv, !.state = "live"]
  /\ tlm = [t \in TLs |-> NoTwoLevelMethod]
  /\ obs = NoObs
  /\ xfer = NoXfer
  /\ hook = NoHook

NextHandle ==
  \/ \E x \in CoarseVecs({0, MaxVal}) : \E b \in CoarseRhs :
       \E res \in Results : HandleApply(x, b, res)
  \/ \E x \in CoarseVecs({0, MaxVal}) : \E b \in CoarseRhs :
       \E reduction \in Reductions : \E res \in Results :
         HandleApplyReduction(x, b, reduction, res)
  \/ HandleDestroy

SpecHandle == InitHandle /\ [][NextHandle]_vars

\* ------------------------------------------------------------- properties
Applied == obs.tl # Null
Handle(t) == tlm[t].coarseSolver_
Smooths(n) == [k \in 1..n |-> "smooth"]
Last(q) == q[Len(q)]

\* C1: when TwoLevelMethod::apply(v, d) returns, the caller's v holds the
\* working iterate u of the cycle, coarse grid correction included.
C1_CallerReceivesIterate ==
  Applied => obs.out = obs.u

\* C2: over any number of apply calls on one coarse solver, the recursive
\* solver's pre runs exactly once, in the first call and before its
\* application step, and never again.
C2_PreOnceInFirstApply ==
  \A t \in TLs :
    /\ NumCalls(Handle(t), "apply") = 0 => NumCalls(Handle(t), "pre") = 0
    /\ NumCalls(Handle(t), "apply") >= 1 =>
         /\ NumCalls(Handle(t), "pre") = 1
         /\ CallNames(Handle(t))[1] = "pre"
         /\ CallNames(Handle(t))[2] = "apply"

C2_Witness ==
  \E t \in TLs : NumCalls(Handle(t), "apply") >= 2

\* C3: the recursive solver's post runs only when the coarse solver is
\* destroyed, then exactly once if an apply was ever made on it and not at all
\* otherwise, and it is the solver's last call.
C3_PostOnceAtDestruction ==
  \A t \in TLs :
    /\ tlm[t].state # "destroyed" => NumCalls(Handle(t), "post") = 0
    /\ tlm[t].state = "destroyed" =>
         IF NumCalls(Handle(t), "apply") >= 1
         THEN /\ NumCalls(Handle(t), "post") = 1
              /\ Last(CallNames(Handle(t))) = "post"
         ELSE Handle(t).amg_.calls = <<>>

C3_Witness ==
  /\ \E t \in TLs : tlm[t].state = "destroyed" /\ NumCalls(Handle(t), "post") = 1
  /\ \E t \in TLs : tlm[t].state = "destroyed" /\ Handle(t).amg_.calls = <<>>

\* C4: every apply runs preSteps smoothing sweeps, moveToCoarseLevel on the
\* smoothed residual, one apply of the coarse solver, moveToFineLevel and
\* postSteps smoothing sweeps, in this order and each once.
C4_CycleOrder ==
  Applied =>
    /\ obs.trace = Smooths(tlm[obs.tl].preSteps_)
                   \o <<"moveToCoarseLevel", "coarseSolver.apply",
                        "moveToFineLevel">>
                   \o Smooths(tlm[obs.tl].postSteps_)
    /\ obs.residual = presmooth(FineMatrix(fineOp), smoother, obs.v, obs.d,
                                obs.d, tlm[obs.tl].preSteps_).rhs

C4_Witness ==
  Applied /\ tlm[obs.tl].preSteps_ = 1 /\ tlm[obs.tl].postSteps_ = 1
          /\ Len(obs.trace) = 5

\* C5: the coarse solver is entered with a zero coarse lhs and with the
\* restriction of this cycle's residual as coarse rhs, whatever earlier cycles
\* left in the policy.
C5_CoarseSolveSeesFreshSystem ==
  Applied =>
    /\ obs.coarseIn.x = ZeroVec(NumAggregates(policy.aggregatesMap_))
    /\ obs.coarseIn.b = restrictVector(policy.aggregatesMap_, obs.residual)
    /\ tlm[obs.tl].preSteps_ = 0 => obs.residual = obs.d

C5_Witness ==
  /\ Applied /\ obs.repeat
  /\ policy.lhs_ # ZeroVec(Dim(policy.lhs_))
  /\ obs.coarseIn.b # ZeroVec(Dim(policy.rhs_))

\* C6: createCoarseLevelSystem is invoked exactly once on a transfer policy,
\* before createCoarseLevelSolver and before every cycle, however the
\* TwoLevelMethod objects that share the policy are constructed.
C6_CreatedOnceBeforeUse ==
  /\ (\E t \in TLs : tlm[t].state # "none") => policy.created = 1
  /\ (Applied \/ coarsePolicy.coarseOperator_ # Null) => policy.created >= 1

\* C7: the coarse operator, its matrix and the aggregates map of the policy,
\* and the operator each coarse solver is bound to, stay the same objects with
\* the same contents in every step that constructs no TwoLevelMethod: no
\* apply, pre or post rebuilds or changes them.
CoarseSystem(pol) ==
  <<pol.operator_, pol.matrix_, pol.coarseMatrix, pol.aggregatesMap_,
    pol.prolongDamp_, pol.created>>

C7_CoarseOperatorFixed ==
  [][(\A t \in TLs : tlm'[t].state = "live" => tlm[t].state = "live")
       => /\ CoarseSystem(policy') = CoarseSystem(policy)
          /\ \A t \in TLs : Handle(t)'.amg_.op = Handle(t).amg_.op]_vars

C7_Witness ==
  /\ Applied /\ NumCalls(Handle(obs.tl), "apply") >= 2
  /\ Handle(obs.tl).amg_.op = policy.operator_
  /\ policy.matrix_ = policy.operator_

\* C8: an apply that repeats the apply before it, on the same TwoLevelMethod
\* with the same v and d, returns the same v and ends with the same working
\* iterate, although only the first ran the recursive solver's pre.
C8_RepeatedApplyAgrees ==
  obs.repeat => obs.out = obs.prevOut /\ obs.u = obs.prevU

C8_Witness ==
  /\ obs.repeat
  /\ CallNames(Handle(obs.tl)) = <<"pre", "apply", "apply">>
  /\ obs.u # obs.v

\* C9 as stated: restricting a residual that is constant on each aggregate,
\* solving with the identity and prolongating into a zero vector with damping
\* factor 1 gives the residual back on every unknown of an aggregate.
ConstantPerAggregate(agg, r) ==
  \A i \in DOMAIN agg : \A j \in DOMAIN agg : agg[i] = agg[j] => r[i] = r[j]

RoundTrip ==
  /\ xfer.chain = <<"moveToCoarseLevel", "solve", "moveToFineLevel">>
  /\ xfer.fineIn = ZeroVec(NFine)
  /\ policy.prolongDamp_ = 1
  /\ ConstantPerAggregate(policy.aggregatesMap_, xfer.fineRhs)

C9_RoundTripReproduces ==
  RoundTrip =>
    \A i \in Idx(NFine) :
      policy.aggregatesMap_[i] # ISOLATED => xfer.fineOut[i] = xfer.fineRhs[i]

\* C9: the round trip gives, on every unknown of an aggregate, the residual
\* value times the number of unknowns in the aggregate, and nothing on an
\* isolated unknown.
C9_RoundTripScales ==
  RoundTrip =>
    \A i \in Idx(NFine) :
      xfer.fineOut[i] =
        IF policy.aggregatesMap_[i] = ISOLATED THEN 0
        ELSE Cardinality(Members(policy.aggregatesMap_, policy.aggregatesMap_[i]))
             * xfer.fineRhs[i]

C9_Witness ==
  /\ RoundTrip
  /\ \E i \in Idx(NFine) :
       /\ policy.aggregatesMap_[i] # ISOLATED
       /\ Cardinality(Members(policy.aggregatesMap_, policy.aggregatesMap_[i])) >= 2
       /\ xfer.fineRhs[i] # 0
       /\ xfer.fineOut[i] = 2 * xfer.fineRhs[i]

\* C10 as stated: moveToFineLevel leaves fineLhs unchanged when no coarse
\* solve wrote the coarse lhs since the policy's last change: directly after
\* createCoarseLevelSystem, directly after moveToCoarseLevel, or a second time
\* after a completed cycle.
C10_NoSolveNoCorrection ==
  xfer.chain \in {<<"moveToFineLevel">>,
                  <<"moveToCoarseLevel", "moveToFineLevel">>,
                  <<"moveToCoarseLevel", "solve", "moveToFineLevel",
                    "moveToFineLevel">>}
    => xfer.fineOut = xfer.fineIn

\* the third case of C10 as stated, on its own: a second moveToFineLevel after
\* a completed cycle (it does not hold: the coarse lhs still holds the coarse
\* solution, whatever createCoarseLevelSystem left in it)
SecondProlongationAddsNothing ==
  xfer.chain = <<"moveToCoarseLevel", "solve", "moveToFineLevel",
                 "moveToFineLevel">>
    => xfer.fineOut = xfer.fineIn

\* C10: moveToFineLevel leaves fineLhs unchanged when the coarse lhs was last
\* written by the reset of moveToCoarseLevel.
C10_ZeroCorrectionAfterReset ==
  (xfer.chain # <<>> /\ Last(xfer.chain) = "moveToFineLevel"
     /\ xfer.writer = "zero")
    => xfer.fineOut = xfer.fineIn

C10_Witness ==
  /\ xfer.chain = <<"moveToCoarseLevel", "moveToFineLevel">>
  /\ policy.rhs_ # ZeroVec(Dim(policy.rhs_))
  /\ xfer.fineIn # ZeroVec(NFine)
  /\ xfer.fineOut = xfer.fineIn

\* C11: every call of the coarse solver handle's apply, with a reduction
\* tolerance or without one and whatever the tolerance is, makes exactly one
\* application step of the recursive solver.
C11_OneStepPerApply ==
  solve.called => solve.steps = 1

\* a second call of apply on a handle, this one with a tolerance tighter
\* than the default one
C11_Witness ==
  /\ solve.called
  /\ solve.explicit
  /\ solve.reduction > DefaultReduction
  /\ solve.steps = 1
  /\ CallNames(solve.h) = <<"pre", "apply", "apply">>

\* the end-to-end scenario: identity fine operator, no-op smoother, all
\* unknowns in one aggregate, damping factor 1
IdentityScenario ==
  /\ fineOp = "identity"
  /\ smoother = "noop"
  /\ aggregation = BlockMap(NFine, FALSE)
  /\ policy.prolongDamp_ = 1

\* C12: in the end-to-end scenario TwoLevelMethod::apply(v, d) returns the
\* defect d unchanged as its output v, for every d.
C12_IdentityReturnsDefect ==
  (Applied /\ IdentityScenario) => obs.out = obs.d

\* in the scenario the working iterate of a cycle started from v = 0 is the
\* mean of d over the aggregate (rounded down here) on every unknown, which is
\* d only for a constant d
IdentityScenarioIterateIsDefect ==
  (Applied /\ IdentityScenario /\ obs.v = ZeroVec(NFine)) => obs.u = obs.d

\* C13: the handle's apply writes the diagnostics of the coarse solve into
\* its result argument: afterwards res tells the one application made, and it
\* does not report convergence when the step failed to reduce the residual.
C13_ResultReportsSolve ==
  solve.called =>
    /\ solve.res.iterations = solve.steps
    /\ solve.failed => ~solve.res.converged

\* a solve that failed to reduce the residual and after which the result the
\* caller passed still reports convergence
FailedSolveUnreported ==
  solve.called /\ solve.failed /\ solve.res.converged

\* rows and columns of a square or rectangular matrix with at least one row
Rows(A) == Dim(A)
Cols(A) == Dim(A[0])

\* C14: in every state after createCoarseLevelSystem returned, cycles
\* included, the coarse operator has as many rows and columns as there are
\* renumbered aggregates, the coarse lhs has one entry per column of it and
\* the coarse rhs one per row.
C14_CoarseSystemSizes ==
  policy.created > 0 =>
    /\ Rows(policy.coarseMatrix) = NumAggregates(policy.aggregatesMap_)
    /\ Cols(policy.coarseMatrix) = NumAggregates(policy.aggregatesMap_)
    /\ Dim(policy.lhs_) = Cols(policy.coarseMatrix)
    /\ Dim(policy.rhs_) = Rows(policy.coarseMatrix)

\* after two cycles on a coarse system smaller than the fine one
C14_Witness ==
  /\ policy.created > 0
  /\ NumCalls(Handle(1), "apply") = 2
  /\ NumAggregates(policy.aggregatesMap_) < NFine
  /\ policy.lhsWriter = "solve"

\* C15: TwoLevelMethod::pre(x, b) and post(x) are no-ops: a call leaves its
\* arguments as they were, leaves the transfer policy (coarse operator, lhs,
\* rhs) and every TwoLevelMethod with its coarse solver (first_, x_, the calls
\* made on its AMG) unchanged, whether or not the solver has been set up.
C15_HooksChangeNothing ==
  [][hook' # hook =>
       /\ hook'.xOut = hook'.x
       /\ hook'.bOut = hook'.b
       /\ policy' = policy
       /\ tlm' = tlm]_vars

\* pre was called on a TwoLevelMethod whose coarse solver had been set up by
\* an apply, and the AMG has seen no pre but that of the apply
C15_Witness ==
  /\ hook.op = "pre"
  /\ hook.active
  /\ tlm[hook.tl].state = "live"
  /\ CallNames(Handle(hook.tl)) = <<"pre", "apply">>

\* the calls of post made on the AMG of a coarse solver handle
PostCalls(h) == SelectSeq(h.amg_.calls, LAMBDA c : c.f = "post")

\* C16: whenever a coarse solver handle's teardown calls post on its AMG, the
\* coarse operator the AMG was bound to and the matrix it wraps still exist.
C16_PostSeesLiveOperator ==
  \A t \in TLs : \A k \in DOMAIN PostCalls(Handle(t)) :
    PostCalls(Handle(t))[k].live

\* the same for a TwoLevelMethod that was the only user of the coarse system
\* it created: no other was constructed on the policy
PostSeesLiveOperatorWhenAlone ==
  policy.created = 1 =>
    \A t \in TLs : \A k \in DOMAIN PostCalls(Handle(t)) :
      PostCalls(Handle(t))[k].live

\* the vector the first application step of a handle's AMG was called with:
\* the x of the first apply call after pre returned
FirstApplyArg(h) == SelectSeq(h.amg_.calls, LAMBDA c : c.f = "apply")[1].arg

\* C17: once a handle was set up, its copy x_ is the x the first apply call
\* had after pre returned and before the first application step, whatever
\* later apply calls were given and did; post at destruction is passed that
\* copy.
C17_PostGetsCapturedCopy ==
  ~solve.h.first_ =>
    /\ solve.h.x_ = FirstApplyArg(solve.h)
    /\ \A k \in DOMAIN PostCalls(solve.h) :
         PostCalls(solve.h)[k].arg = FirstApplyArg(solve.h)

\* a handle destroyed after two apply calls, the second given another x than
\* the first and leaving the caller's x different from what post was passed
C17_Witness ==
  /\ solve.state = "destroyed"
  /\ CallNames(solve.h) = <<"pre", "apply", "apply", "post">>
  /\ solve.x # FirstApplyArg(solve.h)
  /\ solve.out # FirstApplyArg(solve.h)
  /\ Last(solve.h.amg_.calls).arg = FirstApplyArg(solve.h)
====
